---- MODULE Spec2Model ----
(***************************************************************************)
(* Loan amortization engine of the interest_rate repository.               *)
(*                                                                         *)
(* The repository holds two builds of the same engine: src/app.py and      *)
(* src/app_par_actual.py.  build_schedule and add_months are modelled      *)
(* once; the variable source_file says which build is running, and the     *)
(* one place where the builds differ (the interest start date the engine   *)
(* uses) is the operator ActualInterestStartDate.                          *)
(*                                                                         *)
(* Units.  Money is an integer number of mills (1/1000 of a currency       *)
(* unit), so that inputs finer than a cent can be told from whole cents;   *)
(* a value is "at two decimals" when it is a multiple of Cent.  The       *)
(* annual rate is an integer number of 1/RateUnit percent.  Dates are      *)
(* records [year, month, day]; an optional value (Python's None) is the    *)
(* empty sequence, a present value v is <<v>>.                             *)
(*                                                                         *)
(* Decimal context: the source sets 28 significant digits.  All values of  *)
(* the model have far fewer digits, and a quotient by 365 can never lie    *)
(* closer than 1/730 cent to a rounding boundary without being on it, so   *)
(* exact rational arithmetic followed by one rounding is what the code     *)
(* computes.                                                               *)
(***************************************************************************)
EXTENDS Integers, Sequences, FiniteSets, TLC

VARIABLES source_file, loan_number, periods_months, projected_close_date,
          interest_start_date, first_payment_date, cycle_day,
          annual_rate_percent, loan_amount, monthly_payment,
          rows, balance, extra_interest, previous_date, period, pc,
          call_base_date, call_months, call_cycle_day, call_result, call_pc

inputs == <<source_file, loan_number, periods_months, projected_close_date,
            interest_start_date, first_payment_date, cycle_day,
            annual_rate_percent, loan_amount, monthly_payment>>

locals == <<rows, balance, extra_interest, previous_date, period, pc>>

\* one call of add_months on its own: arguments, outcome, position
resolver == <<call_base_date, call_months, call_cycle_day, call_result, call_pc>>

vars == <<inputs, locals, resolver>>

(***************************************************************************)
(* Units and bounds                                                        *)
(***************************************************************************)
\* mills in one cent: the quantum Decimal("0.01") of quantize_money
Cent == 10

\* annual_rate_percent is held in 1/RateUnit of a percent
RateUnit == 100

\* Decimal(100): percent to fraction
Hundred == 100

\* Decimal(365): flat 365-day year
DaysPerYear == 365

\* largest term length (months) the model explores
MaxPeriods == 3

\* largest month offset, in either direction, handed to add_months on its own
MaxOffset == 14

None == <<>>

Some(v) == <<v>>

IsNone(o) == o = <<>>

Abs(x) == IF x < 0 THEN -x ELSE x

Date(y, m, d) == [year |-> y, month |-> m, day |-> d]

(***************************************************************************)
(* Calendar (datetime.date, calendar.monthrange)                           *)
(***************************************************************************)
IsLeap(y) == (y % 4 = 0) /\ ((y % 100 # 0) \/ (y % 400 = 0))

DaysInMonth(y, m) ==
    IF m = 2 THEN (IF IsLeap(y) THEN 29 ELSE 28)
    ELSE IF m \in {4, 6, 9, 11} THEN 30 ELSE 31

RECURSIVE DaysBeforeMonth(_, _)
DaysBeforeMonth(y, m) ==
    IF m <= 1 THEN 0 ELSE DaysBeforeMonth(y, m - 1) + DaysInMonth(y, m - 1)

DaysBeforeYear(y) ==
    (y - 1) * 365 + ((y - 1) \div 4) - ((y - 1) \div 100) + ((y - 1) \div 400)

\* date.toordinal()
ToOrdinal(dt) == DaysBeforeYear(dt.year) + DaysBeforeMonth(dt.year, dt.month) + dt.day

\* (a - b).days
DaysBetween(a, b) == ToOrdinal(a) - ToOrdinal(b)

\* date(year, month, day) raises ValueError outside these ranges
DateValid(y, m, d) ==
    /\ y >= 1 /\ y <= 9999
    /\ m >= 1 /\ m <= 12
    /\ d >= 1 /\ d <= DaysInMonth(y, m)

Min(a, b) == IF a < b THEN a ELSE b

Max(a, b) == IF a > b THEN a ELSE b

(***************************************************************************)
(* add_months: \div and % floor like Python's // and % do                  *)
(***************************************************************************)
\* variant: the year is carried from the offset alone, not from the month index
AddMonthsYear_NoCarry(base_date, months) ==
    base_date.year + (months \div 12)

AddMonthsYear(base_date, months) ==
    base_date.year + ((base_date.month - 1 + months) \div 12)

AddMonthsMonth(base_date, months) ==
    ((base_date.month - 1 + months) % 12) + 1

\* variant: the day is cut to the length of the base month, not the target's
AddMonthsDay_BaseMonth(base_date, months, cycle_day_arg) ==
    Min(cycle_day_arg, DaysInMonth(base_date.year, base_date.month))

AddMonthsDay(base_date, months, cycle_day_arg) ==
    Min(cycle_day_arg,
        DaysInMonth(AddMonthsYear(base_date, months), AddMonthsMonth(base_date, months)))

\* TRUE when the final date(year, month, day) raises
AddMonthsRaises(base_date, months, cycle_day_arg) ==
    ~DateValid(AddMonthsYear(base_date, months),
               AddMonthsMonth(base_date, months),
               AddMonthsDay(base_date, months, cycle_day_arg))

AddMonths(base_date, months, cycle_day_arg) ==
    Date(AddMonthsYear(base_date, months),
         AddMonthsMonth(base_date, months),
         AddMonthsDay(base_date, months, cycle_day_arg))

(***************************************************************************)
(* quantize_money: the rational num/den mills (den > 0) rounded to a whole *)
(* number of cents, ties away from zero (ROUND_HALF_UP)                    *)
(***************************************************************************)
RoundHalfUpNat(n, d) ==
    IF 2 * (n % d) >= d THEN (n \div d) + 1 ELSE n \div d

QuantizeMoney(num, den) ==
    IF num >= 0 THEN Cent * RoundHalfUpNat(num, den * Cent)
    ELSE -(Cent * RoundHalfUpNat(-num, den * Cent))

(***************************************************************************)
(* build_schedule: the pieces of one pass                                  *)
(***************************************************************************)
\* variant: the principal is taken as given, not rounded to cents
InitialBalance_Unrounded(amount) == amount

\* balance = quantize_money(loan_amount)
InitialBalance(amount) == QuantizeMoney(amount, 1)

\* The interest start date the engine works with.  app.py takes the input;
\* app_par_actual.py ignores the input and takes first_payment_date moved one
\* month back on the same day-of-month, or the projected-close date if later.
ActualInterestStartDate(src, pcd, isd, fpd) ==
    IF src = "app.py" THEN isd
    ELSE LET calculated_interest_start == AddMonths(fpd, -1, fpd.day)
         IN  IF ~IsNone(pcd) /\ ToOrdinal(pcd[1]) > ToOrdinal(calculated_interest_start)
             THEN pcd[1]
             ELSE calculated_interest_start

\* quantize_money((annual_rate_percent / 100) * balance / 365)
DailyInterest(rate, bal) ==
    QuantizeMoney(rate * bal, RateUnit * Hundred * DaysPerYear)

\* variant: the proration is stored only when there are days to prorate
ExtraInterest_OnlyWhenPositive(pcd, start, rate, bal) ==
    IF IsNone(pcd) \/ DaysBetween(start, pcd[1]) <= 0 THEN None
    ELSE Some(QuantizeMoney(DailyInterest(rate, bal) * DaysBetween(start, pcd[1]), 1))

\* variant: a negative day span is not raised to zero
ExtraInterest_NoFloor(pcd, start, rate, bal) ==
    IF IsNone(pcd) THEN None
    ELSE Some(QuantizeMoney(DailyInterest(rate, bal) * DaysBetween(start, pcd[1]), 1))

\* extra-interest proration of period 0; None without a projected-close date
ExtraInterest(pcd, start, rate, bal) ==
    IF IsNone(pcd) THEN None
    ELSE LET extra_days == IF DaysBetween(start, pcd[1]) < 0 THEN 0
                           ELSE DaysBetween(start, pcd[1])
             extra_daily_interest == DailyInterest(rate, bal)
         IN  Some(QuantizeMoney(extra_daily_interest * extra_days, 1))

\* the period-0 row as it stands once its extra_interest has been stored
Row0(ln, start, pcd, bal, extra) ==
    [loan_number |-> ln, period |-> 0, payment_date |-> Some(start),
     days |-> None, projected_close_date |-> pcd,
     beginning_balance |-> bal, daily_interest |-> None, interest |-> None,
     payment |-> None, principal |-> None, extra_interest |-> extra,
     ending_balance |-> bal]

\* variant: range(1, periods_months)
LoopContinues_OffByOne(p, n) == p < n

\* for period in range(1, periods_months + 1)
LoopContinues(p, n) == p <= n

\* variant: period 1 is moved to the cycle day like the later periods
PaymentDate_AlwaysCycle(p, fpd, cd) == AddMonths(fpd, p - 1, cd)

\* variant: the month offset of the later periods is one short
PaymentDate_OffsetShort(p, fpd, cd) ==
    IF p = 1 THEN fpd ELSE AddMonths(fpd, p - 2, cd)

PaymentDate(p, fpd, cd) ==
    IF p = 1 THEN fpd ELSE AddMonths(fpd, p - 1, cd)

\* variant: the proration is not folded into period 1's interest
Interest_NoExtra(p, daily_interest, days, extra) ==
    QuantizeMoney(daily_interest * days, 1)

Interest(p, daily_interest, days, extra) ==
    LET interest == QuantizeMoney(daily_interest * days, 1)
    IN  IF p = 1 /\ ~IsNone(extra)
        THEN QuantizeMoney(interest + extra[1], 1)
        ELSE interest

\* variant: no payoff override in the final period
Payment_NoFinalOverride(p, n, monthly, extra, bal, interest) ==
    LET payment == IF p = 1 /\ ~IsNone(extra) THEN monthly + extra[1] ELSE monthly
    IN  IF payment > bal + interest THEN bal + interest ELSE payment

\* variant: the final payoff forgets the interest of the period
Payment_FinalBalanceOnly(p, n, monthly, extra, bal, interest) ==
    LET payment == IF p = 1 /\ ~IsNone(extra) THEN monthly + extra[1] ELSE monthly
    IN  IF p = n THEN bal
        ELSE IF payment > bal + interest THEN bal + interest
        ELSE payment

\* variant: no clamp to what is owed
Payment_NoClamp(p, n, monthly, extra, bal, interest) ==
    LET payment == IF p = 1 /\ ~IsNone(extra) THEN monthly + extra[1] ELSE monthly
    IN  IF p = n THEN bal + interest ELSE payment

Payment(p, n, monthly, extra, bal, interest) ==
    LET payment == IF p = 1 /\ ~IsNone(extra) THEN monthly + extra[1] ELSE monthly
    IN  IF p = n THEN bal + interest
        ELSE IF payment > bal + interest THEN bal + interest
        ELSE payment

\* variant: the principal is rounded to cents on its own
Principal_Quantized(payment, interest) == QuantizeMoney(payment - interest, 1)

Principal(payment, interest) == payment - interest

\* variant: operands swapped and the result stored as computed
EndingBalance_Swapped(bal, principal) == QuantizeMoney(principal - bal, 1)

EndingBalance(bal, principal) ==
    LET ending_balance == QuantizeMoney(bal - principal, 1)
    IN  IF ending_balance < 0 THEN 0 ELSE ending_balance

PaymentRow(ln, p, n, fpd, cd, prev, rate, bal, monthly, extra) ==
    LET payment_date == PaymentDate(p, fpd, cd)
        days == DaysBetween(payment_date, prev)
        daily_interest == DailyInterest(rate, bal)
        interest == Interest(p, daily_interest, days, extra)
        payment == Payment(p, n, monthly, extra, bal, interest)
        principal == Principal(payment, interest)
    IN  [loan_number |-> ln, period |-> p, payment_date |-> Some(payment_date),
         days |-> Some(days), projected_close_date |-> None,
         beginning_balance |-> bal, daily_interest |-> Some(daily_interest),
         interest |-> Some(interest), payment |-> Some(payment),
         principal |-> Some(principal), extra_interest |-> None,
         ending_balance |-> EndingBalance(bal, principal)]

(***************************************************************************)
(* Inputs.  LoanTerms as the data model types them: principal and rate     *)
(* non-negative, monthly payment positive, cycle day in 1..31.  The input  *)
(* reader parses money with Decimal(text) and validates nothing, so        *)
(* amounts finer than a cent and misordered dates do reach the engine.     *)
(***************************************************************************)
SourceFiles == {"app.py", "app_par_actual.py"}

LoanNumbers == {"L-1"}

PeriodsMonths == -1 .. MaxPeriods

InterestStartDates == {Date(2024, 1, 11), Date(2024, 1, 31)}

ProjectedCloseDates ==
    {None, Some(Date(2024, 1, 1)), Some(Date(2024, 1, 31)), Some(Date(2024, 2, 20))}

FirstPaymentDates == {Date(2024, 1, 5), Date(2024, 2, 29), Date(2024, 11, 30)}

CycleDays == {1, 15, 31}

\* 0%, 6.00%, 12.50%
AnnualRates == {0, 600, 1250}

\* 0.00, 100.005, 1000.00
LoanAmounts == {0, 100005, 1000000}

\* 50.00, 333.335, 2000.00
MonthlyPayments == {50000, 333335, 2000000}

Init ==
    /\ source_file \in SourceFiles
    /\ loan_number \in LoanNumbers
    /\ periods_months \in PeriodsMonths
    /\ projected_close_date \in ProjectedCloseDates
    /\ interest_start_date \in InterestStartDates
    /\ first_payment_date \in FirstPaymentDates
    /\ cycle_day \in CycleDays
    /\ annual_rate_percent \in AnnualRates
    /\ loan_amount \in LoanAmounts
    /\ monthly_payment \in MonthlyPayments
    /\ rows = <<>>
    /\ balance = 0
    /\ extra_interest = None
    /\ previous_date = interest_start_date
    /\ period = 0
    /\ pc = "call"
    /\ call_base_date = Date(2024, 1, 1)
    /\ call_months = 0
    /\ call_cycle_day = 1
    /\ call_result = None
    /\ call_pc = "idle"

\* entry of build_schedule up to the loop: the period-0 row and the proration
Snapshot ==
    /\ pc = "call"
    /\ LET bal == InitialBalance(loan_amount)
           start == ActualInterestStartDate(source_file, projected_close_date,
                                            interest_start_date, first_payment_date)
           extra == ExtraInterest(projected_close_date, start, annual_rate_percent, bal)
       IN  /\ balance' = bal
           /\ extra_interest' = extra
           /\ rows' = <<Row0(loan_number, start, projected_close_date, bal, extra)>>
           /\ previous_date' = start
    /\ period' = 1
    /\ pc' = "loop"
    /\ UNCHANGED <<inputs, resolver>>

\* variant: the balance carried forward is recomputed, not the stored one
NextBalance_Recomputed(row) == row.beginning_balance - row.principal[1]

\* balance = ending_balance
NextBalance(row) == row.ending_balance

\* one iteration of the loop; add_months raising ends the call with no result
PaymentPeriod ==
    /\ pc = "loop"
    /\ LoopContinues(period, periods_months)
    /\ IF period # 1 /\ AddMonthsRaises(first_payment_date, period - 1, cycle_day)
       THEN /\ pc' = "raised"
            /\ UNCHANGED <<rows, balance, extra_interest, previous_date, period>>
       ELSE LET row == PaymentRow(loan_number, period, periods_months,
                                  first_payment_date, cycle_day, previous_date,
                                  annual_rate_percent, balance, monthly_payment,
                                  extra_interest)
            IN  /\ rows' = Append(rows, row)
                /\ balance' = NextBalance(row)
                /\ previous_date' = row.payment_date[1]
                /\ period' = period + 1
                /\ UNCHANGED <<extra_interest, pc>>
    /\ UNCHANGED <<inputs, resolver>>

\* return rows
Return ==
    /\ pc = "loop"
    /\ ~LoopContinues(period, periods_months)
    /\ pc' = "returned"
    /\ UNCHANGED <<inputs, rows, balance, extra_interest, previous_date, period>>
    /\ UNCHANGED resolver

Next == Snapshot \/ PaymentPeriod \/ Return

Spec == Init /\ [][Next]_vars

(***************************************************************************)
(* add_months called on its own, with arguments the function accepts: any  *)
(* date, any offset, any integer cycle day (nothing validates it).         *)
(***************************************************************************)
CallBaseDates ==
    {Date(2024, 11, 15), Date(2024, 1, 31), Date(2099, 12, 31), Date(1999, 12, 31)}

CallOffsets == -MaxOffset .. MaxOffset

CallCycleDays == {-1, 0, 1, 15, 28, 29, 30, 31, 32}

InitAddMonths ==
    /\ source_file \in SourceFiles
    /\ loan_number \in LoanNumbers
    /\ periods_months = 0
    /\ projected_close_date = None
    /\ interest_start_date = Date(2024, 1, 1)
    /\ first_payment_date = Date(2024, 1, 1)
    /\ cycle_day = 1
    /\ annual_rate_percent = 0
    /\ loan_amount = 0
    /\ monthly_payment = 0
    /\ rows = <<>>
    /\ balance = 0
    /\ extra_interest = None
    /\ previous_date = interest_start_date
    /\ period = 0
    /\ pc = "idle"
    /\ call_base_date \in CallBaseDates
    /\ call_months \in CallOffsets
    /\ call_cycle_day \in CallCycleDays
    /\ call_result = None
    /\ call_pc = "call"

\* return date(year, month, day)
AddMonthsReturn ==
    /\ call_pc = "call"
    /\ ~AddMonthsRaises(call_base_date, call_months, call_cycle_day)
    /\ call_result' = Some(AddMonths(call_base_date, call_months, call_cycle_day))
    /\ call_pc' = "returned"
    /\ UNCHANGED <<inputs, locals, call_base_date, call_months, call_cycle_day>>

\* date(year, month, day) raises ValueError
AddMonthsRaise ==
    /\ call_pc = "call"
    /\ AddMonthsRaises(call_base_date, call_months, call_cycle_day)
    /\ call_pc' = "raised"
    /\ UNCHANGED <<inputs, locals, call_base_date, call_months, call_cycle_day, call_result>>

NextAddMonths == AddMonthsReturn \/ AddMonthsRaise

SpecAddMonths == InitAddMonths /\ [][NextAddMonths]_vars

TypeOK ==
    /\ pc \in {"idle", "call", "loop", "returned", "raised"}
    /\ call_pc \in {"idle", "call", "returned", "raised"}
    /\ period \in 0 .. (MaxPeriods + 1)
    /\ Len(rows) <= MaxPeriods + 1

(***************************************************************************)
(* Properties of the schedule                                              *)
(***************************************************************************)
RowIndices == 1 .. Len(rows)

\* the row of period k sits at index k + 1 once it has been emitted
LastRow == rows[Len(rows)]

\* what is owed in the period of row r
Owed(r) == r.beginning_balance + r.interest[1]

\* the proration stored on the period-0 row, 0 when there is none
Row0Extra == IF IsNone(rows[1].extra_interest) THEN 0 ELSE rows[1].extra_interest[1]

\* C1: for a term of N >= 1 months the row of the final period N has an
\* ending balance of exactly 0.00, and that row is the last one of the
\* returned schedule.
C1_FinalBalanceZero ==
    /\ \A i \in RowIndices :
          (periods_months >= 1 /\ rows[i].period = periods_months)
              => rows[i].ending_balance = 0
    /\ (pc = "returned" /\ periods_months >= 1)
          => (LastRow.period = periods_months /\ LastRow.ending_balance = 0)

\* C1 witness: a returned schedule of several periods whose nominal payment
\* was too small to amortize the loan, closed out at zero by the final row.
C1_Witness ==
    /\ pc = "returned"
    /\ periods_months >= 2
    /\ ~IsNone(projected_close_date)
    /\ LastRow.beginning_balance > monthly_payment
    /\ LastRow.payment[1] > monthly_payment
    /\ LastRow.ending_balance = 0

\* C2: the rows emitted so far carry the periods 0, 1, 2, ... in order, one
\* each; the returned schedule has max(N, 0) + 1 rows, so only the period-0
\* row when N <= 0; the call never ends in an error.
C2_RowCount ==
    /\ \A i \in RowIndices : rows[i].period = i - 1
    /\ pc \in {"loop", "returned"} => Len(rows) >= 1
    /\ pc = "returned" => Len(rows) = Max(periods_months, 0) + 1
    /\ pc # "raised"

\* C2 witness: a returned schedule for a term of at least two months.
C2_Witness ==
    /\ pc = "returned"
    /\ periods_months >= 2
    /\ Len(rows) = periods_months + 1
    /\ LastRow.period = periods_months

\* a present money value is a whole number of cents
TwoDecimals(o) == IsNone(o) \/ (o[1] % Cent = 0)

\* C3: every money field of every emitted row has at most two decimals.
C3_AllMoneyTwoDecimals ==
    \A i \in RowIndices :
        /\ rows[i].beginning_balance % Cent = 0
        /\ rows[i].ending_balance % Cent = 0
        /\ TwoDecimals(rows[i].daily_interest)
        /\ TwoDecimals(rows[i].interest)
        /\ TwoDecimals(rows[i].payment)
        /\ TwoDecimals(rows[i].principal)
        /\ TwoDecimals(rows[i].extra_interest)

\* C4: the ending balance of every emitted row, period 0 included, is >= 0.
C4_EndingBalanceNonNegative ==
    \A i \in RowIndices : rows[i].ending_balance >= 0

\* C4 witness: a row before the final period that pays the loan down, and a
\* row that pays it off to exactly zero.
C4_Witness ==
    /\ Len(rows) >= 3
    /\ rows[2].principal[1] > 0
    /\ rows[2].ending_balance > 0
    /\ rows[2].ending_balance < rows[2].beginning_balance
    /\ rows[3].ending_balance = 0

\* C5: the row of the final period N >= 1 has payment = beginning_balance +
\* interest, whatever the nominal payment and the proration are.
C5_FinalPaymentIsPayoff ==
    \A i \in RowIndices :
        (rows[i].period >= 1 /\ rows[i].period = periods_months)
            => rows[i].payment = Some(Owed(rows[i]))

\* C5 witness: a single-period loan with a positive proration, whose payoff
\* differs from the nominal payment plus the proration.
C5_Witness ==
    /\ periods_months = 1
    /\ Len(rows) = 2
    /\ Row0Extra > 0
    /\ rows[2].interest[1] > 0
    /\ rows[2].payment[1] # monthly_payment + Row0Extra
    /\ rows[2].payment[1] # monthly_payment

\* the nominal payment of row r: monthly_payment, plus the proration in
\* period 1 when there is one
Nominal(r) ==
    IF r.period = 1 /\ ~IsNone(rows[1].extra_interest)
    THEN monthly_payment + rows[1].extra_interest[1]
    ELSE monthly_payment

\* C6: a row of a non-final period k (1 <= k < N) pays the nominal amount
\* unless that exceeds beginning_balance + interest, and then pays exactly
\* beginning_balance + interest; no payment row pays more than that.
C6_PaymentClamped ==
    \A i \in RowIndices :
        rows[i].period >= 1 =>
            /\ rows[i].period < periods_months =>
                  rows[i].payment =
                      Some(IF Nominal(rows[i]) > Owed(rows[i])
                           THEN Owed(rows[i]) ELSE Nominal(rows[i]))
            /\ rows[i].payment[1] <= Owed(rows[i])

\* C6 witness: a non-final row whose nominal payment exceeded what was owed.
C6_Witness ==
    /\ Len(rows) >= 2
    /\ periods_months >= 2
    /\ rows[2].beginning_balance > 0
    /\ Nominal(rows[2]) > Owed(rows[2])
    /\ rows[2].payment[1] = Owed(rows[2])

\* the date the period-0 row carries: the interest start the engine used
Row0Date == rows[1].payment_date[1]

IsRoundedToCents(b, x) ==
    /\ b % Cent = 0
    /\ 2 * Abs(b - x) <= Cent
    /\ (2 * Abs(b - x) = Cent) => Abs(b) > Abs(x)

\* everything C8 says of the period-0 row except its date
Row0Rest ==
    /\ rows[1].period = 0
    /\ IsRoundedToCents(rows[1].beginning_balance, loan_amount)
    /\ rows[1].ending_balance = rows[1].beginning_balance
    /\ IsNone(rows[1].days)
    /\ IsNone(rows[1].daily_interest)
    /\ IsNone(rows[1].interest)
    /\ IsNone(rows[1].payment)
    /\ IsNone(rows[1].principal)
    /\ rows[1].projected_close_date = projected_close_date

\* first_payment_date one month back, same day-of-month, cut to the month end
OneMonthBack ==
    LET y == IF first_payment_date.month = 1 THEN first_payment_date.year - 1
             ELSE first_payment_date.year
        m == IF first_payment_date.month = 1 THEN 12
             ELSE first_payment_date.month - 1
        d == IF first_payment_date.day > DaysInMonth(y, m) THEN DaysInMonth(y, m)
             ELSE first_payment_date.day
    IN  Date(y, m, d)

\* the interest start each build works from
StartDateOfBuild ==
    IF source_file = "app.py" THEN interest_start_date
    ELSE IF /\ ~IsNone(projected_close_date)
            /\ ToOrdinal(projected_close_date[1]) > ToOrdinal(OneMonthBack)
         THEN projected_close_date[1]
         ELSE OneMonthBack

IsDailyAmount(d, bal) ==
    LET num == annual_rate_percent * bal
        den == RateUnit * Hundred * DaysPerYear
    IN  /\ d % Cent = 0
        /\ d >= 0
        /\ 2 * Abs(d * den - num) <= Cent * den
        /\ (2 * Abs(d * den - num) = Cent * den) => d * den > num

\* the whole-cent amounts next below and next above the unrounded daily amount
DailyCandidates(bal) ==
    LET whole_cents == (annual_rate_percent * bal) \div (RateUnit * Hundred * DaysPerYear * Cent)
    IN  {Cent * whole_cents, Cent * (whole_cents + 1)}

\* C9, with the interest start left open: the proration is the daily amount
\* times the days from the projected-close date to start, none when negative
\* (a product of whole cents and days, so its rounding changes nothing);
\* without a projected-close date the field is absent and period 1 has its
\* day-count interest and its unadjusted payment.
ProrationFrom(start) ==
    Len(rows) >= 1 =>
        IF ~IsNone(projected_close_date)
        THEN /\ ~IsNone(rows[1].extra_interest)
             /\ \E d \in DailyCandidates(rows[1].beginning_balance) :
                   /\ IsDailyAmount(d, rows[1].beginning_balance)
                   /\ rows[1].extra_interest[1] =
                         d * Max(0, DaysBetween(start, projected_close_date[1]))
        ELSE /\ IsNone(rows[1].extra_interest)
             /\ Len(rows) >= 2 =>
                   /\ rows[2].interest[1] = rows[2].daily_interest[1] * rows[2].days[1]
                   /\ rows[2].payment[1] =
                         (IF periods_months = 1 \/ monthly_payment > Owed(rows[2])
                          THEN Owed(rows[2]) ELSE monthly_payment)

C10_Period1AbsorbsExtra ==
    (periods_months >= 2 /\ Len(rows) >= 2 /\ ~IsNone(rows[1].extra_interest)) =>
        LET E == rows[1].extra_interest[1]
            r == rows[2]
            day_count_interest == r.daily_interest[1] * r.days[1]
        IN  /\ r.interest[1] = day_count_interest + E
            /\ monthly_payment + E <= Owed(r) =>
                  /\ r.payment[1] = monthly_payment + E
                  /\ r.principal[1] = monthly_payment - day_count_interest

\* C10 witness: a positive proration folded into an unclamped period 1.
C10_Witness ==
    /\ periods_months >= 2
    /\ Len(rows) >= 2
    /\ Row0Extra > 0
    /\ rows[2].days[1] > 0
    /\ rows[2].daily_interest[1] > 0
    /\ monthly_payment + Row0Extra < Owed(rows[2])
    /\ rows[2].payment[1] = monthly_payment + Row0Extra

\* C11: of any two adjacent rows of a schedule, the ending balance of the
\* earlier one is the beginning balance of the later one.
C11_BalanceContinuity ==
    \A i \in RowIndices :
        i < Len(rows) => rows[i].ending_balance = rows[i + 1].beginning_balance

\* C11 witness: three rows whose balances differ from row to row, the
\* middle one closed on an amount that had to be rounded to cents.
C11_Witness ==
    /\ Len(rows) >= 3
    /\ rows[1].ending_balance > rows[2].ending_balance
    /\ rows[2].ending_balance > 0
    /\ rows[2].ending_balance # rows[2].beginning_balance - rows[2].principal[1]
    /\ rows[3].beginning_balance = rows[2].ending_balance

\* C12: in every payment row, principal = payment - interest of that row,
\* clamped and overridden payments and the period-1 proration included.
C12_PrincipalIdentity ==
    \A i \in RowIndices :
        rows[i].period >= 1 =>
            rows[i].principal[1] = rows[i].payment[1] - rows[i].interest[1]

\* C12 witness: a schedule holding a period-1 row with a positive proration
\* and a payment finer than a cent, followed by a final row paid off by
\* override.
C12_Witness ==
    /\ Len(rows) >= 3
    /\ Row0Extra > 0
    /\ rows[2].payment[1] % Cent # 0
    /\ rows[2].principal[1] % Cent # 0
    /\ rows[3].period = periods_months
    /\ rows[3].payment[1] # monthly_payment

(***************************************************************************)
(* Properties of add_months                                                *)
(***************************************************************************)
\* length of a month by the calendar's rule, written out
LastDayOfMonth(y, m) ==
    CASE m \in {1, 3, 5, 7, 8, 10, 12} -> 31
      [] m \in {4, 6, 9, 11} -> 30
      [] OTHER -> IF (y % 400 = 0) \/ (y % 4 = 0 /\ y % 100 # 0) THEN 29 ELSE 28

\* C13: the date add_months returns has day-of-month min(cycle_day, last day
\* of its month): cycle day 31 gives 30 in a 30-day month, 28 in February of
\* a non-leap year, 29 in February of a leap year; a cycle day of 1 or more
\* always gets a date.
C13_DayClampedToMonthEnd ==
    /\ call_pc = "returned" =>
          LET r == call_result[1]
              last_day == LastDayOfMonth(r.year, r.month)
          IN  /\ r.day = Min(call_cycle_day, last_day)
              /\ call_cycle_day = 31 =>
                    /\ r.month \in {4, 6, 9, 11} => r.day = 30
                    /\ (r.month = 2 /\ last_day = 28) => r.day = 28
                    /\ (r.month = 2 /\ last_day = 29) => r.day = 29
    /\ call_cycle_day >= 1 => call_pc # "raised"

\* C13 witness: cycle day 31 resolved into the February of a century year
\* that is not a leap year.
C13_Witness ==
    /\ call_pc = "returned"
    /\ call_cycle_day = 31
    /\ call_result[1].month = 2
    /\ call_result[1].year % 100 = 0
    /\ call_result[1].day = 28

\* months since year 0 of a date
MonthIndex(dt) == dt.year * 12 + (dt.month - 1)

\* C14: the date add_months returns lies exactly `months` months after the
\* base date's month, for offsets of either sign, with its month in 1..12;
\* 2024-11-15 plus 3 months on cycle day 15 is 2025-02-15.
C14_MonthIndexCarried ==
    /\ call_pc = "returned" =>
          /\ MonthIndex(call_result[1]) = MonthIndex(call_base_date) + call_months
          /\ call_result[1].month \in 1 .. 12
    /\ (/\ call_pc = "returned"
        /\ call_base_date = Date(2024, 11, 15)
        /\ call_months = 3
        /\ call_cycle_day = 15) => call_result = Some(Date(2025, 2, 15))

\* C14 witness: a negative offset that rolls back over two year boundaries.
C14_Witness ==
    /\ call_pc = "returned"
    /\ call_base_date = Date(2024, 1, 31)
    /\ call_months = -14
    /\ call_result[1].year = 2022
    /\ call_result[1].month = 11

\* C15: add_months never raises, whatever the base date, the offset and the
\* integer cycle day are.
C15_AddMonthsNeverRaises == call_pc # "raised"

(***************************************************************************)
(* Properties of the payment dates and of the principal paid               *)
(***************************************************************************)
\* C16: the period-1 row is dated first_payment_date as given; the row of a
\* period k > 1 is dated k - 1 months after first_payment_date's month, on
\* the cycle day cut to that month's end, whatever the previous row's date.
C16_PaymentDates ==
    \A i \in RowIndices :
        /\ rows[i].period = 1 => rows[i].payment_date = Some(first_payment_date)
        /\ rows[i].period > 1 =>
              LET d == rows[i].payment_date[1]
              IN  /\ MonthIndex(d) = MonthIndex(first_payment_date) + (rows[i].period - 1)
                  /\ d.month \in 1 .. 12
                  /\ d.day = Min(cycle_day, LastDayOfMonth(d.year, d.month))

\* C16 witness: a first payment date off the cycle day, kept as given, with
\* a later period on the cycle day in the following year.
C16_Witness ==
    /\ Len(rows) >= 4
    /\ first_payment_date.day # cycle_day
    /\ rows[2].payment_date = Some(first_payment_date)
    /\ rows[4].payment_date[1].year = first_payment_date.year + 1
    /\ rows[4].payment_date[1].day = cycle_day

\* C17: the payment dates of periods 1..N increase strictly, so every row of
\* a period k >= 2 has days >= 1, days being its date minus the previous
\* row's date, and its interest is not negative; days <= 0 occurs in period
\* 1 only.
C17_LaterPeriodsHavePositiveDays ==
    \A i \in RowIndices :
        rows[i].period >= 2 =>
            /\ ToOrdinal(rows[i].payment_date[1]) > ToOrdinal(rows[i - 1].payment_date[1])
            /\ rows[i].days[1] =
                  ToOrdinal(rows[i].payment_date[1]) - ToOrdinal(rows[i - 1].payment_date[1])
            /\ rows[i].days[1] >= 1
            /\ rows[i].interest[1] >= 0

\* C17 witness: a period 1 that ends before the interest start, with
\* negative days and interest, followed by two periods of positive days and
\* interest.
C17_Witness ==
    /\ Len(rows) >= 4
    /\ rows[2].days[1] < 0
    /\ rows[2].interest[1] < 0
    /\ rows[3].days[1] >= 1
    /\ rows[3].interest[1] > 0
    /\ rows[4].days[1] >= 1

RECURSIVE SumPrincipal(_)
\* principal summed over the payment rows up to index i
SumPrincipal(i) ==
    IF i <= 1 THEN 0 ELSE SumPrincipal(i - 1) + rows[i].principal[1]

\* C18: with monthly_payment a whole number of cents, every payment row
\* closes on beginning_balance - principal untouched by rounding or by the
\* clamp to zero, and for N >= 1 the principal of periods 1..N sums to the
\* period-0 beginning balance.
C18_PrincipalSumsToLoan ==
    monthly_payment % Cent = 0 =>
        /\ \A i \in RowIndices :
              rows[i].period >= 1 =>
                  /\ rows[i].beginning_balance - rows[i].principal[1] >= 0
                  /\ rows[i].ending_balance =
                        rows[i].beginning_balance - rows[i].principal[1]
        /\ (pc = "returned" /\ periods_months >= 1) =>
              SumPrincipal(Len(rows)) = rows[1].beginning_balance

\* C18 witness: a returned schedule of several periods on a principal that
\* was rounded to cents, with interest charged and whole-cent payments.
C18_Witness ==
    /\ pc = "returned"
    /\ periods_months >= 2
    /\ monthly_payment % Cent = 0
    /\ loan_amount % Cent # 0
    /\ rows[2].interest[1] > 0
    /\ rows[2].principal[1] > 0
    /\ LastRow.principal[1] > 0
    /\ SumPrincipal(Len(rows)) = rows[1].beginning_balance

====
